---- MODULE Spec2Model ----
(***************************************************************************)
(* The composition layer of the ECS / Spring Boot CDK project: the five    *)
(* constructs (Network, DNS, Database, Jumphost, Application), the stack   *)
(* constructor that instantiates and wires them, and the stack outputs.    *)
(*                                                                         *)
(* Five programs are modelled over the same constructs:                    *)
(*   Spec            one run of the EcsProjectStack constructor;           *)
(*   SpecConstructs  a caller that instantiates the constructs directly    *)
(*                   with props of its own, as the construct tests do;     *)
(*   SpecCollect     the constructor followed by createOutputs once more;  *)
(*   SpecLifecycle   a deployed Network and Database, provisioned again    *)
(*                   and torn down by cleanup.sh or the cleanup workflow;  *)
(*   SpecPipeline    one run of the deploy workflow, from its trigger to   *)
(*                   the results of its jobs, and the cleanup workflow.    *)
(*                                                                         *)
(* Optional props are 0- or 1-element tuples: <<>> is an absent           *)
(* (undefined) key, <<v>> a key present with value v.  Domain names are    *)
(* tuples of characters so that template strings and split('.') are        *)
(* computed; every other string is only ever compared.                     *)
(***************************************************************************)
EXTENDS Integers, Sequences, FiniteSets, TLC

VARIABLES
    pc,           \* index of the next statement of the stack constructor
    err,          \* "none", or the error that ended the run
    props,        \* the props the caller supplied
    hostedZones,  \* the domains that have a hosted zone in the account
    availabilityZones,   \* how many zones stack.availabilityZones offers
    network, dns, database, jumphost, application,   \* the constructs
    aRecord,      \* the Route53 A record of DnsConstruct.createARecord
    outputs,      \* the CfnOutputs of the stack
    order,        \* the constructs in the order they were instantiated
    grants,       \* the calls of allowConnectionsFrom that returned, in order
    op,           \* the operation the last step performed
    teardown,     \* what the last cleanup run (script or workflow) did
    pipeline      \* the run of the deploy workflow: its trigger and its jobs

vars == <<pc, err, props, hostedZones, availabilityZones, network, dns,
          database, jumphost, application, aRecord, outputs, order, grants, op,
          teardown, pipeline>>

----------------------------------------------------------------------------
\* Bounds of the model

\* task counts (desiredCount, minCapacity, maxCapacity) a caller may supply: 0..MaxCount
MaxCount == 2
\* AZ and NAT gateway counts a caller may supply: 0..MaxAzs
MaxAzs == 3

----------------------------------------------------------------------------
\* Values

None == <<>>
Some(v) == <<v>>
Opt(S) == {None} \cup {Some(v) : v \in S}

\* a construct that has not been instantiated (an undefined reference)
NULL == [undefined |-> TRUE]

EMPTY == <<>>
DOT == <<".">>
HTTPS == <<"h", "t", "t", "p", "s", ":", "/", "/">>
STAR_DOT == <<"*", ".">>
SPRING == <<"s", "p", "r", "i", "n", "g">>
OAZIS_SITE == <<"o", "a", "z", "i", "s", ".", "s", "i", "t", "e">>
API == <<"a", "p", "i">>
EXAMPLE_COM == <<"e", "x", "a", "m", "p", "l", "e", ".", "c", "o", "m">>
A_DOT_B == <<"a", ".", "b">>

\* the domain and subdomain names a caller may supply
DomainNames == {EMPTY, EXAMPLE_COM, OAZIS_SITE}
SubdomainNames == {EMPTY, API, A_DOT_B}

----------------------------------------------------------------------------
\* The ?? operator, per operand type

\* a || b on numbers: 0 is falsy
OrNum(a, b) == IF a = None \/ a[1] = 0 THEN b ELSE a[1]

CoalesceNum(a, b) == IF a = None THEN b ELSE a[1]

CoalesceBool(a, b) == IF a = None THEN b ELSE a[1]

CoalesceStr(a, b) == IF a = None THEN b ELSE a[1]

----------------------------------------------------------------------------
\* Security groups

AllTraffic == [peer |-> "0.0.0.0/0", port |-> "ALL", description |-> "Allow all outbound traffic by default"]

SecurityGroup(id, allowAllOutbound) ==
    [id |-> id,
     ingress |-> <<>>,
     egress |-> IF allowAllOutbound THEN <<AllTraffic>> ELSE <<>>]

HasRule(rules, peer, port) ==
    \E i \in 1..Len(rules) : rules[i].peer = peer /\ rules[i].port = port

\* SecurityGroup.addIngressRule: one ingress rule per (peer, port)
AddIngressRule(sg, peer, port, description) ==
    IF HasRule(sg.ingress, peer, port)
    THEN sg
    ELSE [sg EXCEPT !.ingress =
             Append(@, [peer |-> peer, port |-> port, description |-> description])]

----------------------------------------------------------------------------
\* NetworkConstruct

Min(a, b) == IF a <= b THEN a ELSE b

\* one subnet of the named group in each zone the VPC uses
Subnets(name, zones) == {<<name, z>> : z \in 1..zones}

\* the zones ec2.Vpc uses: the first maxAzs of the zones the stack offers
VpcZonesUnclamped(maxAzs) == maxAzs

VpcZones(maxAzs) == Min(maxAzs, availabilityZones)

NetworkConstruct(p) ==
    LET maxAzs == CoalesceNum(p.maxAzs, 2)
        natGateways == CoalesceNum(p.natGateways, 1)
        zones == VpcZones(maxAzs)
    IN  [maxAzs |-> maxAzs,
         natGateways |-> natGateways,
         subnetConfiguration |-> <<"PUBLIC", "PRIVATE_WITH_EGRESS", "PRIVATE_ISOLATED">>,
         vpc |-> "Network/Vpc",
         publicSubnets |-> Subnets("Public", zones),
         privateSubnets |-> Subnets("Private", zones),
         databaseSubnets |-> Subnets("Database", zones),
         natGatewayCount |-> Min(natGateways, zones),
         internetGateways |-> 1]

----------------------------------------------------------------------------
\* DnsConstruct

FullDomainName(subdomainName, domainName) == subdomainName \o DOT \o domainName

\* a lookup that returns a zone for any domain
ZoneFoundAlways(domainName, zones) == TRUE

\* HostedZone.fromLookup finds a zone only for a domain the account hosts
ZoneFound(domainName, zones) == domainName \in zones

DnsConstruct(p) ==
    LET subdomainName == CoalesceStr(p.subdomainName, SPRING)
        fullDomainName == FullDomainName(subdomainName, p.domainName)
    IN  [fullDomainName |-> fullDomainName,
         hostedZone |-> p.domainName,
         certificate |->
            [domainName |-> fullDomainName,
             subjectAlternativeNames |->
                IF p.subjectAlternativeNames = None
                THEN <<STAR_DOT \o p.domainName>>
                ELSE p.subjectAlternativeNames[1],
             validation |-> p.domainName]]

\* index of the first '.' of s, or Len(s) + 1
RECURSIVE FirstDot(_, _)
FirstDot(s, i) ==
    IF i > Len(s) THEN i
    ELSE IF s[i] = "." THEN i
    ELSE FirstDot(s, i + 1)

\* s.split('.')[0]
FirstLabel(s) == SubSeq(s, 1, FirstDot(s, 1) - 1)

\* DnsConstruct.createARecord
CreateARecord(d, target) ==
    [zone |-> d.hostedZone,
     recordName |-> FirstLabel(d.fullDomainName),
     target |-> target]

----------------------------------------------------------------------------
\* DatabaseConstruct

\* allowAllOutbound: true on the database security group
DatabaseSecurityGroupOpen == SecurityGroup("Database/SecurityGroup", TRUE)

DatabaseSecurityGroup == SecurityGroup("Database/SecurityGroup", FALSE)

\* the instance destroyed with the stack whatever deletionProtection says
RemovalPolicyDestroy(deletionProtection) == "DESTROY"

RemovalPolicy(deletionProtection) ==
    IF deletionProtection THEN "RETAIN" ELSE "DESTROY"

DatabaseConstruct(p) ==
    LET databaseName == CoalesceStr(p.databaseName, "springbootdb")
        username == CoalesceStr(p.username, "springboot")
        instanceType == CoalesceStr(p.instanceType, "t3.micro")
        allocatedStorage == CoalesceNum(p.allocatedStorage, 20)
        maxAllocatedStorage == CoalesceNum(p.maxAllocatedStorage, 100)
        deletionProtection == CoalesceBool(p.deletionProtection, FALSE)
    IN  [secret |-> [arn |-> "Database/Secret",
                     username |-> username,
                     generateStringKey |-> "password",
                     passwordLength |-> 16],
         securityGroup |-> DatabaseSecurityGroup,
         vpc |-> p.vpc,
         subnetType |-> "PRIVATE_ISOLATED",
         instanceType |-> instanceType,
         databaseName |-> databaseName,
         allocatedStorage |-> allocatedStorage,
         maxAllocatedStorage |-> maxAllocatedStorage,
         deleteAutomatedBackups |-> TRUE,
         backupRetentionDays |-> 7,
         deletionProtection |-> deletionProtection,
         removalPolicy |-> RemovalPolicy(deletionProtection),
         endpoint |-> "Database/Instance.Endpoint.Address",
         port |-> 5432]

\* allowConnectionsFrom that also opens the database group's egress
AllowConnectionsFromAndEgress(db, source, description) ==
    [db EXCEPT !.securityGroup =
        [AddIngressRule(@, source.id, db.port,
                        CoalesceStr(description, "Allow database connection"))
            EXCEPT !.egress = Append(@, AllTraffic)]]

\* DatabaseConstruct.allowConnectionsFrom
AllowConnectionsFrom(db, source, description) ==
    [db EXCEPT !.securityGroup =
        AddIngressRule(@, source.id, db.port,
                       CoalesceStr(description, "Allow database connection"))]

----------------------------------------------------------------------------
\* JumphostConstruct

\* the SSH rule added whether or not SSH from anywhere is allowed
SshIngressAlways(sg, allowSshFromAnywhere) ==
    AddIngressRule(sg, "0.0.0.0/0", 22, "Allow SSH access from anywhere")

SshIngress(sg, allowSshFromAnywhere) ==
    IF allowSshFromAnywhere
    THEN AddIngressRule(sg, "0.0.0.0/0", 22, "Allow SSH access from anywhere")
    ELSE sg

JumphostConstruct(p) ==
    LET instanceType == CoalesceStr(p.instanceType, "t3.micro")
        keyPairName == CoalesceStr(p.keyPairName, "springboot-jumphost-key")
        allowSshFromAnywhere == CoalesceBool(p.allowSshFromAnywhere, TRUE)
        sg == SecurityGroup("Jumphost/SecurityGroup", TRUE)
    IN  [keyPair |-> [keyPairName |-> keyPairName, type |-> "RSA", format |-> "PEM"],
         securityGroup |-> SshIngress(sg, allowSshFromAnywhere),
         vpc |-> p.vpc,
         subnetType |-> "PUBLIC",
         instanceType |-> instanceType,
         instanceId |-> "Jumphost/Instance.InstanceId",
         publicIp |-> "Jumphost/Instance.PublicIp"]

----------------------------------------------------------------------------
\* ApplicationConstruct

\* the container environment with the user name of the secret in plain text
ContainerEnvironmentWithUser(p) ==
    [SPRING_PROFILES_ACTIVE |-> "prod",
     SERVER_PORT |-> "8080",
     DATABASE_HOST |-> p.databaseEndpoint,
     DATABASE_PORT |-> ToString(p.databasePort),
     DATABASE_NAME |-> p.databaseName,
     DATABASE_USERNAME |-> p.databaseSecret.username]

ContainerEnvironment(p) ==
    [SPRING_PROFILES_ACTIVE |-> "prod",
     SERVER_PORT |-> "8080",
     DATABASE_HOST |-> p.databaseEndpoint,
     DATABASE_PORT |-> ToString(p.databasePort),
     DATABASE_NAME |-> p.databaseName]

\* ecs.Secret.fromSecretsManager(secret, field): a reference, never the value
SecretRef(secret, field) == <<secret.arn, field>>

ContainerSecrets(p) ==
    [DATABASE_USERNAME |-> SecretRef(p.databaseSecret, "username"),
     DATABASE_PASSWORD |-> SecretRef(p.databaseSecret, "password")]

ApplicationConstruct(p) ==
    LET githubRepo == CoalesceStr(p.githubRepo,
                          "https://github.com/integrationninjas/springboot-example.git")
        desiredCount == CoalesceNum(p.desiredCount, 2)
        cpu == CoalesceNum(p.cpu, 512)
        memoryLimitMiB == CoalesceNum(p.memoryLimitMiB, 1024)
        minCapacity == CoalesceNum(p.minCapacity, 1)
        maxCapacity == CoalesceNum(p.maxCapacity, 10)
    IN  [repository |-> [repositoryName |-> "spring-boot-app",
                         repositoryUri |-> "Application/Repository.Uri",
                         maxImageCount |-> 10],
         cluster |-> [clusterName |-> "spring-boot-cluster", vpc |-> p.vpc],
         githubRepo |-> githubRepo,
         cpu |-> cpu,
         memoryLimitMiB |-> memoryLimitMiB,
         desiredCount |-> desiredCount,
         containerPort |-> 8080,
         environment |-> ContainerEnvironment(p),
         secrets |-> ContainerSecrets(p),
         listenerPort |-> 443,
         certificate |-> p.certificate,
         redirectHTTP |-> TRUE,
         minCapacity |-> minCapacity,
         maxCapacity |-> maxCapacity,
         loadBalancer |-> "Application/Service/LB",
         loadBalancerDnsName |-> "Application/Service/LB.DNSName",
         securityGroup |-> SecurityGroup("Application/Service/SecurityGroup", TRUE)]

----------------------------------------------------------------------------
\* EcsProjectStack.createOutputs

\* the ApplicationURL output without the scheme's "s"
ApplicationUrlPlain(d) == <<"h", "t", "t", "p", ":", "/", "/">> \o d.fullDomainName

ApplicationUrl(d) == HTTPS \o d.fullDomainName

\* the outputs with the two Jumphost values under each other's key
CreateOutputsSwapped(d, db, jh, app) ==
    [ApplicationURL |-> HTTPS \o d.fullDomainName,
     LoadBalancerDNS |-> app.loadBalancerDnsName,
     ClusterName |-> app.cluster.clusterName,
     ECRRepositoryURI |-> app.repository.repositoryUri,
     DatabaseEndpoint |-> db.endpoint,
     DatabaseSecretArn |-> db.secret.arn,
     JumphostInstanceId |-> jh.publicIp,
     JumphostPublicIP |-> jh.instanceId,
     SSHKeyPairName |-> jh.keyPair.keyPairName]

CreateOutputs(d, db, jh, app) ==
    [ApplicationURL |-> ApplicationUrl(d),
     LoadBalancerDNS |-> app.loadBalancerDnsName,
     ClusterName |-> app.cluster.clusterName,
     ECRRepositoryURI |-> app.repository.repositoryUri,
     DatabaseEndpoint |-> db.endpoint,
     DatabaseSecretArn |-> db.secret.arn,
     JumphostInstanceId |-> jh.instanceId,
     JumphostPublicIP |-> jh.publicIp,
     SSHKeyPairName |-> jh.keyPair.keyPairName]

----------------------------------------------------------------------------
\* Props

\* every optional key absent
NoProps ==
    [domainName |-> None, subdomainName |-> None, subjectAlternativeNames |-> None,
     maxAzs |-> None, natGateways |-> None,
     databaseName |-> None, username |-> None, dbInstanceType |-> None,
     allocatedStorage |-> None, maxAllocatedStorage |-> None,
     deletionProtection |-> None,
     jumphostInstanceType |-> None, keyPairName |-> None,
     allowSshFromAnywhere |-> None,
     githubRepo |-> None, desiredCount |-> None, cpu |-> None,
     memoryLimitMiB |-> None, minCapacity |-> None, maxCapacity |-> None]

NetworkProps(maxAzs, natGateways) ==
    [maxAzs |-> maxAzs, natGateways |-> natGateways]

DnsProps(domainName, subdomainName, subjectAlternativeNames) ==
    [domainName |-> domainName, subdomainName |-> subdomainName,
     subjectAlternativeNames |-> subjectAlternativeNames]

DatabaseProps(vpc, name, username, type, allocated, maxAllocated, protection) ==
    [vpc |-> vpc, databaseName |-> name, username |-> username,
     instanceType |-> type, allocatedStorage |-> allocated,
     maxAllocatedStorage |-> maxAllocated,
     deletionProtection |-> protection]

JumphostProps(vpc, instanceType, keyPairName, allowSshFromAnywhere) ==
    [vpc |-> vpc, instanceType |-> instanceType, keyPairName |-> keyPairName,
     allowSshFromAnywhere |-> allowSshFromAnywhere]

ApplicationProps(vpc, cert, db, dbName, repo, desired, cpu, memory, min, max) ==
    [vpc |-> vpc, certificate |-> cert,
     databaseEndpoint |-> db.endpoint, databasePort |-> db.port,
     databaseSecret |-> db.secret, databaseName |-> dbName,
     githubRepo |-> repo, desiredCount |-> desired, cpu |-> cpu,
     memoryLimitMiB |-> memory, minCapacity |-> min,
     maxCapacity |-> max]

----------------------------------------------------------------------------
\* EcsProjectStack: the constructor, statement by statement

\* the statements with the Application created before the Database
StackProgramApplicationFirst ==
    <<"network", "dns", "application", "database", "jumphost", "grantJumphost",
      "grantApplication", "aRecord", "outputs">>

\* the statements without the Jumphost grant
StackProgramNoJumphostGrant ==
    <<"network", "dns", "database", "jumphost", "application",
      "grantApplication", "aRecord", "outputs">>

\* the statements with the outputs created before the Application grant
StackProgramOutputsEarly ==
    <<"network", "dns", "database", "jumphost", "grantJumphost", "application",
      "outputs", "grantApplication", "aRecord">>

\* the statements with both grants after the five constructs
StackProgramGrantsLast ==
    <<"network", "dns", "database", "jumphost", "application", "grantJumphost",
      "grantApplication", "aRecord", "outputs">>

\* the statements with the Jumphost created before the Database
StackProgramJumphostFirst ==
    <<"network", "dns", "jumphost", "database", "grantJumphost", "application",
      "grantApplication", "aRecord", "outputs">>

StackProgram ==
    <<"network", "dns", "database", "jumphost", "grantJumphost", "application",
      "grantApplication", "aRecord", "outputs">>

Done == Len(StackProgram) + 1

At(stmt) ==
    /\ err = "none"
    /\ pc \in 1..Len(StackProgram)
    /\ StackProgram[pc] = stmt

\* the props EcsProjectStackProps declares, and the overrides CONFIGURATION.md
\* passes to the stack
StackPropsSet ==
    {[NoProps EXCEPT !.domainName = t[1], !.subdomainName = t[2],
                     !.desiredCount = t[3], !.minCapacity = t[4],
                     !.maxCapacity = t[5], !.cpu = t[6],
                     !.deletionProtection = t[7], !.maxAzs = t[8]] :
        t \in Opt(DomainNames) \X Opt(SubdomainNames) \X Opt(1..MaxCount)
              \X Opt(1..MaxCount) \X Opt(1..MaxCount) \X Opt({256})
              \X Opt({TRUE}) \X Opt({0, 3})}

\* the zones a stack sees: two when it has no concrete environment, three
\* from the placeholder context of a first synthesis, the region's otherwise
AvailabilityZoneCounts == {2, 3}

\* no cleanup has run
NoTeardown ==
    [via |-> "none", input |-> <<>>, issued |-> FALSE, stack |-> "",
     status |-> 0, destroyed |-> {}, retained |-> {}]

\* the jobs of the deploy workflow
Jobs ==
    {"lint-and-test", "security-scan", "deploy-dev", "deploy-staging",
     "deploy-production"}

\* no event has reached the deploy workflow
NoPipeline ==
    [event |-> "none", ref |-> "", base |-> "", onlyDocs |-> FALSE,
     results |-> [job \in Jobs |-> "pending"], started |-> <<>>, targets |-> {}]

Init ==
    /\ pc = 1
    /\ err = "none"
    /\ props \in StackPropsSet
    /\ hostedZones \in {{}, {EXAMPLE_COM, OAZIS_SITE}}
    /\ availabilityZones \in AvailabilityZoneCounts
    /\ teardown = NoTeardown
    /\ pipeline = NoPipeline
    /\ network = NULL
    /\ dns = NULL
    /\ database = NULL
    /\ jumphost = NULL
    /\ application = NULL
    /\ aRecord = NULL
    /\ outputs = NULL
    /\ order = <<>>
    /\ grants = <<>>
    /\ op = <<"super">>

Construct(name) ==
    CASE name = "Network" -> network
      [] name = "Dns" -> dns
      [] name = "Database" -> database
      [] name = "Jumphost" -> jumphost
      [] name = "Application" -> application

\* the id of the security group <name>.securityGroup
SourceId(name) ==
    IF name = "Jumphost" THEN "Jumphost/SecurityGroup"
    ELSE "Application/Service/SecurityGroup"

\* the record of one call database.allowConnectionsFrom(source, ...)
Grant(source, db) == [source |-> source.id, destination |-> db.securityGroup.id,
                      port |-> db.port]

\* the exception caught and the constructor going on with its next statement
ThrowSwallowed(e) ==
    /\ pc' = pc + 1
    /\ UNCHANGED <<err, network, dns, database, jumphost, application, aRecord,
                   outputs, order, grants>>

\* a statement that reads a construct not yet assigned throws
Throw(e) ==
    /\ err' = e
    /\ UNCHANGED <<pc, network, dns, database, jumphost, application, aRecord,
                   outputs, order, grants>>

StackNetwork ==
    /\ At("network")
    /\ op' = <<"new", "Network">>
    /\ network' = NetworkConstruct(NetworkProps(Some(2), Some(1)))
    /\ order' = Append(order, "Network")
    /\ pc' = pc + 1
    /\ UNCHANGED <<err, props, hostedZones, availabilityZones, pipeline, teardown, dns, database,
                   jumphost, application,
                   aRecord, outputs, grants>>

StackDns ==
    /\ At("dns")
    /\ op' = <<"new", "Dns">>
    /\ LET domainName == CoalesceStr(props.domainName, OAZIS_SITE)
           subdomainName == CoalesceStr(props.subdomainName, SPRING)
       IN  IF ZoneFound(domainName, hostedZones)
           THEN /\ dns' = DnsConstruct(DnsProps(domainName, Some(subdomainName), None))
                /\ order' = Append(order, "Dns")
                /\ pc' = pc + 1
                /\ UNCHANGED <<err, network, database, jumphost, application,
                               aRecord, outputs, grants>>
           ELSE Throw("LookupError")
    /\ UNCHANGED <<props, hostedZones, availabilityZones, pipeline, teardown>>

StackDatabase ==
    /\ At("database")
    /\ op' = <<"new", "Database">>
    /\ IF network = NULL
       THEN Throw("ReferenceError")
       ELSE /\ database' = DatabaseConstruct(
                   DatabaseProps(network.vpc, Some("springbootdb"),
                                 Some("springboot"), None, None, None, Some(FALSE)))
            /\ order' = Append(order, "Database")
            /\ pc' = pc + 1
            /\ UNCHANGED <<err, network, dns, jumphost, application, aRecord,
                           outputs, grants>>
    /\ UNCHANGED <<props, hostedZones, availabilityZones, pipeline, teardown>>

StackJumphost ==
    /\ At("jumphost")
    /\ op' = <<"new", "Jumphost">>
    /\ IF network = NULL
       THEN Throw("ReferenceError")
       ELSE /\ jumphost' = JumphostConstruct(
                   JumphostProps(network.vpc, None,
                                 Some("springboot-jumphost-key"), None))
            /\ order' = Append(order, "Jumphost")
            /\ pc' = pc + 1
            /\ UNCHANGED <<err, network, dns, database, application, aRecord,
                           outputs, grants>>
    /\ UNCHANGED <<props, hostedZones, availabilityZones, pipeline, teardown>>

StackGrantJumphost ==
    /\ At("grantJumphost")
    /\ op' = <<"allowConnectionsFrom", "Jumphost">>
    /\ IF database = NULL \/ jumphost = NULL
       THEN Throw("ReferenceError")
       ELSE /\ database' = AllowConnectionsFrom(database, jumphost.securityGroup,
                               Some("Allow jumphost to connect to database"))
            /\ grants' = Append(grants, Grant(jumphost.securityGroup, database))
            /\ pc' = pc + 1
            /\ UNCHANGED <<err, network, dns, jumphost, application, aRecord,
                           outputs, order>>
    /\ UNCHANGED <<props, hostedZones, availabilityZones, pipeline, teardown>>

StackApplication ==
    /\ At("application")
    /\ op' = <<"new", "Application">>
    /\ IF network = NULL \/ dns = NULL \/ database = NULL
       THEN Throw("ReferenceError")
       ELSE /\ application' = ApplicationConstruct(
                   ApplicationProps(network.vpc, dns.certificate, database,
                                    "springbootdb", None, Some(2), None, None,
                                    Some(1), Some(10)))
            /\ order' = Append(order, "Application")
            /\ pc' = pc + 1
            /\ UNCHANGED <<err, network, dns, database, jumphost, aRecord,
                           outputs, grants>>
    /\ UNCHANGED <<props, hostedZones, availabilityZones, pipeline, teardown>>

StackGrantApplication ==
    /\ At("grantApplication")
    /\ op' = <<"allowConnectionsFrom", "Application">>
    /\ IF database = NULL \/ application = NULL
       THEN Throw("ReferenceError")
       ELSE /\ database' = AllowConnectionsFrom(database, application.securityGroup,
                               Some("Allow ECS service to connect to database"))
            /\ grants' = Append(grants, Grant(application.securityGroup, database))
            /\ pc' = pc + 1
            /\ UNCHANGED <<err, network, dns, jumphost, application, aRecord,
                           outputs, order>>
    /\ UNCHANGED <<props, hostedZones, availabilityZones, pipeline, teardown>>

StackARecord ==
    /\ At("aRecord")
    /\ op' = <<"createARecord">>
    /\ IF dns = NULL \/ application = NULL
       THEN Throw("ReferenceError")
       ELSE /\ aRecord' = CreateARecord(dns, application.loadBalancer)
            /\ pc' = pc + 1
            /\ UNCHANGED <<err, network, dns, database, jumphost, application,
                           outputs, order, grants>>
    /\ UNCHANGED <<props, hostedZones, availabilityZones, pipeline, teardown>>

StackOutputs ==
    /\ At("outputs")
    /\ op' = <<"createOutputs">>
    /\ IF dns = NULL \/ database = NULL \/ jumphost = NULL \/ application = NULL
       THEN Throw("ReferenceError")
       ELSE /\ outputs' = CreateOutputs(dns, database, jumphost, application)
            /\ pc' = pc + 1
            /\ UNCHANGED <<err, network, dns, database, jumphost, application,
                           aRecord, order, grants>>
    /\ UNCHANGED <<props, hostedZones, availabilityZones, pipeline, teardown>>

Next ==
    \/ StackNetwork
    \/ StackDns
    \/ StackDatabase
    \/ StackJumphost
    \/ StackGrantJumphost
    \/ StackApplication
    \/ StackGrantApplication
    \/ StackARecord
    \/ StackOutputs

Spec == Init /\ [][Next]_vars

----------------------------------------------------------------------------
\* A caller of the constructs: it instantiates each construct at most once,
\* in an order of its choice, with the props it was given, and grants access
\* to the database

\* the props of the construct under test; the other constructs get none
NetworkPropsSet ==
    {[NoProps EXCEPT !.domainName = Some(EXAMPLE_COM),
                     !.maxAzs = t[1], !.natGateways = t[2]] :
        t \in Opt(0..MaxAzs) \X Opt(0..MaxAzs)}

DnsPropsSet ==
    {[NoProps EXCEPT !.domainName = Some(t[1]), !.subdomainName = t[2],
                     !.subjectAlternativeNames = t[3]] :
        t \in DomainNames \X Opt(SubdomainNames) \X Opt({<<>>, <<API \o DOT \o EXAMPLE_COM>>})}

DatabasePropsSet ==
    {[NoProps EXCEPT !.domainName = Some(EXAMPLE_COM),
                     !.databaseName = t[1], !.username = t[2],
                     !.dbInstanceType = t[3], !.allocatedStorage = t[4],
                     !.maxAllocatedStorage = t[5], !.deletionProtection = t[6]] :
        t \in Opt({"", "testdb"}) \X Opt({"testuser"}) \X Opt({"t3.small"})
              \X Opt({0, 50}) \X Opt({0, 200}) \X Opt(BOOLEAN)}

JumphostPropsSet ==
    {[NoProps EXCEPT !.domainName = Some(EXAMPLE_COM),
                     !.jumphostInstanceType = t[1], !.keyPairName = t[2],
                     !.allowSshFromAnywhere = t[3]] :
        t \in Opt({"t3.small"}) \X Opt({"", "ops-key"}) \X Opt(BOOLEAN)}

ApplicationPropsSet ==
    {[NoProps EXCEPT !.domainName = Some(EXAMPLE_COM),
                     !.githubRepo = t[1], !.desiredCount = t[2], !.cpu = t[3],
                     !.memoryLimitMiB = t[4], !.minCapacity = t[5],
                     !.maxCapacity = t[6]] :
        t \in Opt({""}) \X Opt(0..MaxCount) \X Opt({0, 256}) \X Opt({512})
              \X Opt(0..MaxCount) \X Opt(0..MaxCount)}

InitConstructs ==
    /\ pc = 0
    /\ err = "none"
    /\ props \in NetworkPropsSet \cup DnsPropsSet \cup DatabasePropsSet
                    \cup JumphostPropsSet \cup ApplicationPropsSet
    /\ hostedZones \in {{}, {EXAMPLE_COM, OAZIS_SITE}}
    /\ availabilityZones \in IF props \in NetworkPropsSet
                             THEN AvailabilityZoneCounts ELSE {3}
    /\ teardown = NoTeardown
    /\ pipeline = NoPipeline
    /\ network = NULL
    /\ dns = NULL
    /\ database = NULL
    /\ jumphost = NULL
    /\ application = NULL
    /\ aRecord = NULL
    /\ outputs = NULL
    /\ order = <<>>
    /\ grants = <<>>
    /\ op = <<"super">>

Calling == pc = 0 /\ err = "none"

CallerNetwork ==
    /\ Calling
    /\ network = NULL
    /\ op' = <<"new", "Network">>
    /\ network' = NetworkConstruct(NetworkProps(props.maxAzs, props.natGateways))
    /\ order' = Append(order, "Network")
    /\ UNCHANGED <<pc, err, props, hostedZones, availabilityZones, pipeline, teardown, dns,
                   database, jumphost,
                   application, aRecord, outputs, grants>>

CallerDns ==
    /\ Calling
    /\ dns = NULL
    /\ op' = <<"new", "Dns">>
    /\ IF ZoneFound(props.domainName[1], hostedZones)
       THEN /\ dns' = DnsConstruct(DnsProps(props.domainName[1], props.subdomainName,
                                            props.subjectAlternativeNames))
            /\ order' = Append(order, "Dns")
            /\ UNCHANGED <<pc, err, network, database, jumphost, application,
                           aRecord, outputs, grants>>
       ELSE Throw("LookupError")
    /\ UNCHANGED <<props, hostedZones, availabilityZones, pipeline, teardown>>

CallerDatabase ==
    /\ Calling
    /\ database = NULL
    /\ op' = <<"new", "Database">>
    /\ IF network = NULL
       THEN Throw("ReferenceError")
       ELSE /\ database' = DatabaseConstruct(
                   DatabaseProps(network.vpc, props.databaseName, props.username,
                                 props.dbInstanceType, props.allocatedStorage,
                                 props.maxAllocatedStorage, props.deletionProtection))
            /\ order' = Append(order, "Database")
            /\ UNCHANGED <<pc, err, network, dns, jumphost, application, aRecord,
                           outputs, grants>>
    /\ UNCHANGED <<props, hostedZones, availabilityZones, pipeline, teardown>>

CallerJumphost ==
    /\ Calling
    /\ jumphost = NULL
    /\ op' = <<"new", "Jumphost">>
    /\ IF network = NULL
       THEN Throw("ReferenceError")
       ELSE /\ jumphost' = JumphostConstruct(
                   JumphostProps(network.vpc, props.jumphostInstanceType,
                                 props.keyPairName, props.allowSshFromAnywhere))
            /\ order' = Append(order, "Jumphost")
            /\ UNCHANGED <<pc, err, network, dns, database, application, aRecord,
                           outputs, grants>>
    /\ UNCHANGED <<props, hostedZones, availabilityZones, pipeline, teardown>>

CallerApplication ==
    /\ Calling
    /\ application = NULL
    /\ op' = <<"new", "Application">>
    /\ IF network = NULL \/ dns = NULL \/ database = NULL
       THEN Throw("ReferenceError")
       ELSE /\ application' = ApplicationConstruct(
                   ApplicationProps(network.vpc, dns.certificate, database,
                                    "springbootdb", props.githubRepo,
                                    props.desiredCount, props.cpu,
                                    props.memoryLimitMiB, props.minCapacity,
                                    props.maxCapacity))
            /\ order' = Append(order, "Application")
            /\ UNCHANGED <<pc, err, network, dns, database, jumphost, aRecord,
                           outputs, grants>>
    /\ UNCHANGED <<props, hostedZones, availabilityZones, pipeline, teardown>>

\* allowConnectionsFrom doing nothing when an end of the grant is missing
CallerAllowSilent(name) ==
    /\ Calling
    /\ \A i \in 1..Len(grants) : grants[i].source # SourceId(name)
    /\ op' = <<"allowConnectionsFrom", name>>
    /\ IF database = NULL \/ Construct(name) = NULL
       THEN UNCHANGED <<pc, err, network, dns, database, jumphost, application,
                        aRecord, outputs, order, grants>>
       ELSE /\ database' = AllowConnectionsFrom(database,
                               Construct(name).securityGroup, None)
            /\ grants' = Append(grants, Grant(Construct(name).securityGroup, database))
            /\ UNCHANGED <<pc, err, network, dns, jumphost, application, aRecord,
                           outputs, order>>
    /\ UNCHANGED <<props, hostedZones, availabilityZones, pipeline, teardown>>

\* database.allowConnectionsFrom(<name>.securityGroup)
CallerAllow(name) ==
    /\ Calling
    /\ \A i \in 1..Len(grants) : grants[i].source # SourceId(name)
    /\ op' = <<"allowConnectionsFrom", name>>
    /\ IF database = NULL \/ Construct(name) = NULL
       THEN Throw("ReferenceError")
       ELSE /\ database' = AllowConnectionsFrom(database,
                               Construct(name).securityGroup, None)
            /\ grants' = Append(grants, Grant(Construct(name).securityGroup, database))
            /\ UNCHANGED <<pc, err, network, dns, jumphost, application, aRecord,
                           outputs, order>>
    /\ UNCHANGED <<props, hostedZones, availabilityZones, pipeline, teardown>>

\* database.securityGroup.addIngressRule(Peer.anyIpv4(), Port.tcp(database.port)):
\* the security group is a public field of the construct
CallerAddIngressRule ==
    /\ Calling
    /\ op' = <<"securityGroup.addIngressRule">>
    /\ IF database = NULL
       THEN Throw("ReferenceError")
       ELSE /\ ~HasRule(database.securityGroup.ingress, "0.0.0.0/0", database.port)
            /\ database' = [database EXCEPT !.securityGroup =
                               AddIngressRule(@, "0.0.0.0/0", database.port,
                                              "Allow database connection from anywhere")]
            /\ UNCHANGED <<pc, err, network, dns, jumphost, application, aRecord,
                           outputs, order, grants>>
    /\ UNCHANGED <<props, hostedZones, availabilityZones, pipeline, teardown>>

NextConstructs ==
    \/ CallerNetwork
    \/ CallerDns
    \/ CallerDatabase
    \/ CallerJumphost
    \/ CallerApplication
    \/ \E name \in {"Jumphost", "Application"} : CallerAllow(name)
    \/ CallerAddIngressRule

SpecConstructs == InitConstructs /\ [][NextConstructs]_vars

----------------------------------------------------------------------------
\* Properties of one run of the stack constructor (Spec)

Passed == pc = Done /\ err = "none"

\* consumer, producer
DependencyEdges ==
    {<<"Database", "Network">>, <<"Jumphost", "Network">>,
     <<"Application", "Network">>, <<"Application", "Dns">>,
     <<"Application", "Database">>}

\* C1: a component is instantiated only after every component it depends on
\* has produced its outputs (Network before Database, Jumphost and
\* Application; DNS and Database before Application): in the instantiation
\* order every producer stands strictly before its consumer, a consumer that
\* exists has all its producers, and no statement ever reads a producer that
\* is not there yet.
C1_ProducersBeforeConsumers ==
    /\ \A e \in DependencyEdges :
          /\ Construct(e[1]) # NULL => Construct(e[2]) # NULL
          /\ \A i \in 1..Len(order) :
                order[i] = e[1] => \E j \in 1..(i - 1) : order[j] = e[2]
    /\ err # "ReferenceError"

C1_Witness ==
    /\ Passed
    /\ order = <<"Network", "Dns", "Database", "Jumphost", "Application">>
    /\ application # NULL

\* C3: a complete pass has made exactly two grants on the Database, first
\* Jumphost -> Database and then Application -> Database, each on the database
\* port and each once; at no point has any other source a grant or has a
\* source two.
C3_ExactlyTwoGrants ==
    /\ \A i \in 1..Len(grants) :
          /\ grants[i].source \in {"Jumphost/SecurityGroup",
                                    "Application/Service/SecurityGroup"}
          /\ grants[i].destination = "Database/SecurityGroup"
          /\ grants[i].port = 5432
          /\ \A j \in 1..Len(grants) : grants[j].source = grants[i].source => j = i
    /\ Passed =>
          /\ Len(grants) = 2
          /\ grants[1].source = "Jumphost/SecurityGroup"
          /\ grants[2].source = "Application/Service/SecurityGroup"
          /\ Len(database.securityGroup.ingress) = 2

C3_Witness ==
    /\ Passed
    /\ Len(grants) = 2
    /\ outputs # NULL

RulePairs(rules) == {<<rules[i].peer, rules[i].port>> : i \in 1..Len(rules)}

\* C4: at every point of a pass the Database security group has no outbound
\* rule and its inbound rules are exactly the grants made so far through
\* allowConnectionsFrom: none right after the Database is created, and after a
\* full pass port-5432 ingress from the Jumphost and the Application security
\* groups and nothing else.
C4_DatabaseBoundary ==
    database # NULL =>
        /\ database.securityGroup.egress = <<>>
        /\ Len(database.securityGroup.ingress) = Len(grants)
        /\ RulePairs(database.securityGroup.ingress)
              = {<<grants[i].source, grants[i].port>> : i \in 1..Len(grants)}
        /\ op = <<"new", "Database">> => database.securityGroup.ingress = <<>>
        /\ Passed =>
              RulePairs(database.securityGroup.ingress)
                 = {<<"Jumphost/SecurityGroup", 5432>>,
                    <<"Application/Service/SecurityGroup", 5432>>}

C4_Witness ==
    /\ Passed
    /\ database.securityGroup.egress = <<>>
    /\ Len(database.securityGroup.ingress) = 2

TaskCountsGiven ==
    [desired |-> IF props.desiredCount = None THEN 2 ELSE props.desiredCount[1],
     min |-> IF props.minCapacity = None THEN 1 ELSE props.minCapacity[1],
     max |-> IF props.maxCapacity = None THEN 10 ELSE props.maxCapacity[1]]

NothingInstantiated ==
    /\ order = <<>>
    /\ network = NULL /\ dns = NULL /\ database = NULL
    /\ jumphost = NULL /\ application = NULL

\* C6: a configuration whose task counts violate min <= desired <= max (such
\* as minCapacity 1, maxCapacity 1, desiredCount 2) is rejected before any
\* component is instantiated.
C6_BadCountsRejected ==
    ~(TaskCountsGiven.min <= TaskCountsGiven.desired
        /\ TaskCountsGiven.desired <= TaskCountsGiven.max)
       => NothingInstantiated

AzCountsGiven ==
    [azs |-> IF props.maxAzs = None THEN 2 ELSE props.maxAzs[1],
     nats |-> IF props.natGateways = None THEN 1 ELSE props.natGateways[1]]

\* C7: a configuration with an AZ count below 1, more NAT gateways than AZs,
\* or an empty domain is rejected before provisioning starts: no component is
\* instantiated for it.
C7_InvalidConfigRejected ==
    (\/ AzCountsGiven.azs < 1
     \/ AzCountsGiven.nats > AzCountsGiven.azs
     \/ props.domainName = Some(EMPTY))
       => NothingInstantiated

\* C9: every override supplied to the stack takes effect in the provisioned
\* component: after a pass the task counts, cpu, deletion protection and AZ
\* count of the components are the supplied ones.
C9_OverridesTakeEffect ==
    Passed =>
        /\ props.desiredCount # None => application.desiredCount = props.desiredCount[1]
        /\ props.minCapacity # None => application.minCapacity = props.minCapacity[1]
        /\ props.maxCapacity # None => application.maxCapacity = props.maxCapacity[1]
        /\ props.cpu # None => application.cpu = props.cpu[1]
        /\ props.deletionProtection # None
              => database.deletionProtection = props.deletionProtection[1]
        /\ props.maxAzs # None => network.maxAzs = props.maxAzs[1]

\* C10: for every domain d and subdomain s given to the stack, a pass that
\* completes publishes ApplicationURL = "https://" s "." d; example.com with
\* subdomain api gives https://api.example.com.
C10_ApplicationUrl ==
    (outputs # NULL /\ props.domainName # None /\ props.subdomainName # None) =>
        /\ outputs.ApplicationURL
              = <<"h", "t", "t", "p", "s", ":", "/", "/">>
                   \o props.subdomainName[1] \o <<".">> \o props.domainName[1]
        /\ (props.domainName[1] = EXAMPLE_COM /\ props.subdomainName[1] = API) =>
              outputs.ApplicationURL
                 = <<"h", "t", "t", "p", "s", ":", "/", "/", "a", "p", "i", ".",
                     "e", "x", "a", "m", "p", "l", "e", ".", "c", "o", "m">>

C10_Witness ==
    /\ outputs # NULL
    /\ props.domainName = Some(EXAMPLE_COM)
    /\ props.subdomainName = Some(API)

----------------------------------------------------------------------------
\* Properties of the constructs under any caller (SpecConstructs)

GrantEndsExist ==
    \A i \in 1..Len(grants) :
        /\ database # NULL
        /\ grants[i].port = database.port
        /\ \E name \in {"Jumphost", "Application"} :
              Construct(name) # NULL /\ grants[i].source = Construct(name).securityGroup.id

AllowStep ==
    op'[1] = "allowConnectionsFrom" =>
        IF database = NULL \/ Construct(op'[2]) = NULL
        THEN /\ err' = "ReferenceError"
             /\ grants' = grants
             /\ database' = database
        ELSE /\ err' = "none"
             /\ Len(grants') = Len(grants) + 1
             /\ HasRule(database'.securityGroup.ingress,
                        Construct(op'[2]).securityGroup.id, database.port)

\* C2: a grant is created only when its source and the Database (security
\* group and port) both exist, and a call of allowConnectionsFrom made while
\* the Database or the source does not exist yet ends the run with an error
\* and creates nothing, while one made with both ends in place adds the rule.
C2_GrantNeedsBothEnds == [](GrantEndsExist) /\ [][AllowStep]_vars

C2_Witness ==
    /\ op = <<"allowConnectionsFrom", "Jumphost">>
    /\ err = "ReferenceError"
    /\ jumphost # NULL
    /\ database = NULL
    /\ grants = <<>>

\* C5: allowConnectionsFrom is the only way access to the Database is added:
\* every inbound rule of the Database security group comes from a grant made
\* through it.
C5_OnlyThroughGrant ==
    database # NULL =>
        RulePairs(database.securityGroup.ingress)
            \subseteq {<<grants[i].source, grants[i].port>> : i \in 1..Len(grants)}

Given(key, default) == IF key = None THEN default ELSE key[1]

\* C8: every option with a declared default takes the default when the caller
\* omits the key and the caller's value when the key is present, 0, false and
\* the empty string included; a Database given only a name and a username has
\* allocated storage 20, max storage 100 and the given name.
C8_DefaultsAndOverrides ==
    /\ network # NULL =>
          /\ network.maxAzs = Given(props.maxAzs, 2)
          /\ network.natGateways = Given(props.natGateways, 1)
    /\ dns # NULL =>
          /\ dns.fullDomainName
                = Given(props.subdomainName, <<"s", "p", "r", "i", "n", "g">>)
                     \o <<".">> \o props.domainName[1]
          /\ dns.certificate.subjectAlternativeNames
                = Given(props.subjectAlternativeNames,
                        <<(<<"*", ".">> \o props.domainName[1])>>)
    /\ database # NULL =>
          /\ database.databaseName = Given(props.databaseName, "springbootdb")
          /\ database.secret.username = Given(props.username, "springboot")
          /\ database.instanceType = Given(props.dbInstanceType, "t3.micro")
          /\ database.allocatedStorage = Given(props.allocatedStorage, 20)
          /\ database.maxAllocatedStorage = Given(props.maxAllocatedStorage, 100)
          /\ database.deletionProtection = Given(props.deletionProtection, FALSE)
          /\ (props.databaseName = Some("testdb") /\ props.allocatedStorage = None
                /\ props.maxAllocatedStorage = None) =>
                /\ database.databaseName = "testdb"
                /\ database.allocatedStorage = 20
                /\ database.maxAllocatedStorage = 100
    /\ jumphost # NULL =>
          /\ jumphost.instanceType = Given(props.jumphostInstanceType, "t3.micro")
          /\ jumphost.keyPair.keyPairName
                = Given(props.keyPairName, "springboot-jumphost-key")
          /\ HasRule(jumphost.securityGroup.ingress, "0.0.0.0/0", 22)
                = Given(props.allowSshFromAnywhere, TRUE)
    /\ application # NULL =>
          /\ application.githubRepo
                = Given(props.githubRepo,
                        "https://github.com/integrationninjas/springboot-example.git")
          /\ application.desiredCount = Given(props.desiredCount, 2)
          /\ application.cpu = Given(props.cpu, 512)
          /\ application.memoryLimitMiB = Given(props.memoryLimitMiB, 1024)
          /\ application.minCapacity = Given(props.minCapacity, 1)
          /\ application.maxCapacity = Given(props.maxCapacity, 10)

C8_Witness ==
    /\ database # NULL
    /\ props.databaseName = Some("testdb")
    /\ props.username = Some("testuser")
    /\ props.allocatedStorage = None
    /\ props.maxAllocatedStorage = None
    /\ database.databaseName = "testdb"
    /\ database.allocatedStorage = 20
    /\ database.maxAllocatedStorage = 100

----------------------------------------------------------------------------
\* EcsProjectStack with createOutputs called once more after the constructor's
\* own call

\* this.createOutputs(dns, database, jumphost, application) a second time: the
\* first new cdk.CfnOutput(this, 'ApplicationURL', ...) finds the id taken in
\* the stack's scope and throws
StackOutputsAgain ==
    /\ pc = Done
    /\ err = "none"
    /\ outputs # NULL
    /\ op' = <<"createOutputs">>
    /\ IF DOMAIN CreateOutputs(dns, database, jumphost, application)
            \cap DOMAIN outputs # {}
       THEN Throw("DuplicateId")
       ELSE /\ outputs' = CreateOutputs(dns, database, jumphost, application)
            /\ UNCHANGED <<pc, err, network, dns, database, jumphost, application,
                           aRecord, order, grants>>
    /\ UNCHANGED <<props, hostedZones, availabilityZones, pipeline, teardown>>

NextCollect ==
    \/ StackNetwork
    \/ StackDns
    \/ StackDatabase
    \/ StackJumphost
    \/ StackGrantJumphost
    \/ StackApplication
    \/ StackGrantApplication
    \/ StackARecord
    \/ StackOutputs
    \/ StackOutputsAgain

SpecCollect == Init /\ [][NextCollect]_vars

----------------------------------------------------------------------------
\* A deployed stack over its life: provisioned, provisioned again with
\* deletionProtection changed, and torn down by cleanup.sh or by the cleanup
\* workflow.  Input texts are tuples of characters.

YES == <<"y", "e", "s">>
DESTROY == <<"D", "E", "S", "T", "R", "O", "Y">>
QUOTE == "\""

\* what the operator may type at the prompt of cleanup.sh
Replies ==
    {YES, <<"Y", "E", "S">>, <<"Y", "e", "s">>, <<"n", "o">>, <<"y">>, <<>>,
     <<"y", "e", "s", "s">>, <<" ", "y", "e", "s">>}

\* what the operator may type as the confirmation input of the workflow
Confirmations ==
    {DESTROY, <<"d", "e", "s", "t", "r", "o", "y">>, YES, <<>>,
     <<"D", "E", "S", "T", "R", "O", "Y", " ">>,
     <<"x", QUOTE, " ", "=", " ", QUOTE, "x">>}

Environments == {"dev", "staging", "prod"}

StackNames == {"EcsProjectStack", "OtherStack"}

\* [[ $REPLY =~ ^[Yy][Ee][Ss]$ ]]
MatchesYes(reply) ==
    /\ Len(reply) = 3
    /\ reply[1] \in {"Y", "y"}
    /\ reply[2] \in {"E", "e"}
    /\ reply[3] \in {"S", "s"}

\* the words the shell makes of a line: blanks outside double quotes separate
\* words, double quotes group and are removed (the lines here have no $, `, \)
RECURSIVE ShellSplit(_, _, _, _, _, _)
ShellSplit(line, i, quoted, word, open, words) ==
    IF i > Len(line)
    THEN IF open THEN Append(words, word) ELSE words
    ELSE IF line[i] = QUOTE
         THEN ShellSplit(line, i + 1, ~quoted, word, TRUE, words)
         ELSE IF line[i] = " " /\ ~quoted
              THEN ShellSplit(line, i + 1, FALSE, <<>>, FALSE,
                              IF open THEN Append(words, word) ELSE words)
              ELSE ShellSplit(line, i + 1, quoted, Append(word, line[i]), TRUE, words)

ShellWords(line) == ShellSplit(line, 1, FALSE, <<>>, FALSE, <<>>)

\* the arguments of [ ... ] in
\*   if [ "${{ github.event.inputs.confirmation }}" != "DESTROY" ]; then
\* once the workflow runner has put the input's text in place of ${{ }}
ValidateArgs(confirmation) ==
    ShellWords(<<QUOTE>> \o confirmation \o <<QUOTE, " ", "!", "=", " ", QUOTE>>
               \o DESTROY \o <<QUOTE>>)

\* the status of [ args ]: 0 true, 1 false, 2 when the arguments are not an
\* expression (three words are a binary comparison; more words with no
\* -a, -o, !, ( among them are "too many arguments")
TestStatus(args) ==
    IF Len(args) = 3 /\ args[2] = <<"!", "=">>
    THEN IF args[1] # args[3] THEN 0 ELSE 1
    ELSE IF Len(args) = 3 /\ args[2] = <<"=">>
         THEN IF args[1] = args[3] THEN 0 ELSE 1
         ELSE 2

\* the step "Validate confirmation" succeeds unless the test is true (exit 1)
Validated(confirmation) == TestStatus(ValidateArgs(confirmation)) # 0

\* STACK_NAME of the step "Destroy CDK Stack"
DestroyStackName(stackName, environment) ==
    IF environment # "dev" THEN stackName \o "-" \o environment ELSE stackName

\* the stack bin/ecs-project.ts defines
AppStack == "EcsProjectStack"

Provisioned ==
    {name \in {"Network", "Dns", "Database", "Jumphost", "Application"} :
        Construct(name) # NULL}

\* the resources a stack deletion keeps: those with removal policy RETAIN
Retained ==
    {name \in Provisioned : name = "Database" /\ database.removalPolicy = "RETAIN"}

\* cdk destroy --force on the stack: every construct is deleted but the retained
CdkDestroy(via, input) ==
    /\ teardown' = [via |-> via, input |-> input, issued |-> TRUE,
                    stack |-> AppStack, status |-> 0,
                    destroyed |-> Provisioned \ Retained, retained |-> Retained]
    /\ network' = NULL
    /\ dns' = NULL
    /\ database' = IF "Database" \in Retained THEN database ELSE NULL
    /\ jumphost' = NULL
    /\ application' = NULL
    /\ aRecord' = NULL
    /\ outputs' = NULL

\* a cleanup run that ended with the given status and deleted nothing
NothingDestroyed(via, input, issued, stack, status) ==
    /\ teardown' = [via |-> via, input |-> input, issued |-> issued,
                    stack |-> stack, status |-> status,
                    destroyed |-> {}, retained |-> {}]
    /\ UNCHANGED <<network, dns, database, jumphost, application, aRecord, outputs>>

Deployed == Calling /\ teardown.via = "none"

DeployNetwork == Deployed /\ CallerNetwork

DeployDatabase == Deployed /\ CallerDatabase

\* the program run and deployed again with deletionProtection set anew: the
\* instance takes the properties and the removal policy of the new description
ProvisionAgain(deletionProtection) ==
    /\ Deployed
    /\ database # NULL
    /\ Some(deletionProtection) # props.deletionProtection
    /\ op' = <<"provisionAgain">>
    /\ props' = [props EXCEPT !.deletionProtection = Some(deletionProtection)]
    /\ database' = DatabaseConstruct(
           DatabaseProps(network.vpc, props.databaseName, props.username,
                         props.dbInstanceType, props.allocatedStorage,
                         props.maxAllocatedStorage, Some(deletionProtection)))
    /\ UNCHANGED <<pc, err, hostedZones, availabilityZones, pipeline, teardown, network, dns,
                   jumphost, application, aRecord, outputs, order, grants>>

\* cleanup.sh: read the reply, leave with status 1 unless it says yes, destroy
CleanupScript(reply) ==
    /\ Deployed
    /\ op' = <<"cleanup.sh">>
    /\ IF MatchesYes(reply)
       THEN CdkDestroy("cleanup.sh", reply)
       ELSE NothingDestroyed("cleanup.sh", reply, FALSE, "", 1)
    /\ UNCHANGED <<pc, err, props, hostedZones, availabilityZones, pipeline, order, grants>>

\* the job cleanup of cleanup.yml: validate the confirmation, set up (checkout,
\* node, npm ci, build, credentials, cdk ls), destroy the named stack.  strict
\* is whether the CLI treats a stack name the app does not define as an error.
CleanupWorkflow(environment, confirmation, stackName, setupOk, strict) ==
    /\ Deployed
    /\ op' = <<"cleanup.yml", environment>>
    /\ LET stack == DestroyStackName(stackName, environment)
       IN  IF ~Validated(confirmation) \/ ~setupOk
           THEN NothingDestroyed("cleanup.yml", confirmation, FALSE, "", 1)
           ELSE IF stack = AppStack
                THEN CdkDestroy("cleanup.yml", confirmation)
                ELSE NothingDestroyed("cleanup.yml", confirmation, TRUE, stack,
                                      IF strict THEN 1 ELSE 0)
    /\ UNCHANGED <<pc, err, props, hostedZones, availabilityZones, pipeline, order, grants>>

InitLifecycle ==
    /\ InitConstructs
    /\ props \in DatabasePropsSet
    /\ hostedZones # {}

NextLifecycle ==
    \/ DeployNetwork
    \/ DeployDatabase
    \/ \E deletionProtection \in BOOLEAN : ProvisionAgain(deletionProtection)
    \/ \E reply \in Replies : CleanupScript(reply)
    \/ \E environment \in Environments, confirmation \in Confirmations,
          stackName \in StackNames, setupOk \in BOOLEAN, strict \in BOOLEAN :
            CleanupWorkflow(environment, confirmation, stackName, setupOk, strict)

SpecLifecycle == InitLifecycle /\ [][NextLifecycle]_vars

----------------------------------------------------------------------------
\* The deploy workflow (deploy.yml): one run, from the event that may trigger
\* it to the results of its five jobs.  What a deployed stack holds is the
\* subject of Spec; here a deploy job is its place in the run, the stack name
\* it hands to cdk deploy and whether its steps succeed.

MainRefs == {"refs/heads/main", "refs/heads/master"}

\* the events that may reach the workflow: a push to a branch, a pull request
\* into a base branch (github.ref is the merge ref), a manual dispatch on a
\* branch; onlyDocs says that every changed path is a *.md or docs/ path
Events ==
    {[NoPipeline EXCEPT !.event = "push", !.ref = ref, !.onlyDocs = docs] :
        ref \in MainRefs \cup {"refs/heads/feature"}, docs \in BOOLEAN}
    \cup {[NoPipeline EXCEPT !.event = "pull_request", !.ref = "refs/pull/1/merge",
                            !.base = base, !.onlyDocs = docs] :
            base \in {"main", "master", "develop"}, docs \in BOOLEAN}
    \cup {[NoPipeline EXCEPT !.event = "workflow_dispatch", !.ref = ref] :
            ref \in MainRefs \cup {"refs/heads/feature"}}

\* on: push / pull_request (branches, paths-ignore) / workflow_dispatch
Triggered(run) ==
    CASE run.event = "push" -> run.ref \in MainRefs /\ ~run.onlyDocs
      [] run.event = "pull_request" -> run.base \in {"main", "master"} /\ ~run.onlyDocs
      [] run.event = "workflow_dispatch" -> TRUE
      [] OTHER -> FALSE

CiJobs == {"lint-and-test", "security-scan"}

\* every deploy job waiting for the CI jobs only
NeedsCiOnly(job) == IF job \in CiJobs THEN {} ELSE CiJobs

\* needs:
Needs(job) ==
    CASE job = "deploy-dev" -> CiJobs
      [] job = "deploy-staging" -> {"deploy-dev"}
      [] job = "deploy-production" -> {"deploy-staging"}
      [] OTHER -> {}

\* if: of the job
Condition(job, run) ==
    CASE job = "deploy-dev" -> run.ref \in MainRefs \/ run.event = "workflow_dispatch"
      [] job \in {"deploy-staging", "deploy-production"} -> run.ref \in MainRefs
      [] OTHER -> TRUE

\* the stack cdk deploy is asked for; without a name it is the app's one stack
DeployStackName(job) ==
    CASE job = "deploy-dev" -> AppStack
      [] job = "deploy-staging" -> "EcsProjectStack-Staging"
      [] job = "deploy-production" -> "EcsProjectStack-Production"

\* the environment input of the cleanup workflow that names the job's environment
CleanupEnvironment(job) ==
    CASE job = "deploy-dev" -> "dev"
      [] job = "deploy-staging" -> "staging"
      [] job = "deploy-production" -> "prod"

\* A job is decided once the jobs it needs are: it runs when they all succeeded
\* and its condition holds (an if: without a status function means success()
\* && ...), and is skipped otherwise.  A CI job succeeds when its steps do; a
\* deploy job whose earlier steps succeeded runs cdk deploy, which fails for a
\* stack name the app does not define.
RunJob(job, stepsOk) ==
    /\ Triggered(pipeline)
    /\ pipeline.results[job] = "pending"
    /\ \A need \in Needs(job) : pipeline.results[need] # "pending"
    /\ op' = <<"job", job>>
    /\ IF (\A need \in Needs(job) : pipeline.results[need] = "success")
             /\ Condition(job, pipeline)
       THEN pipeline' =
              [pipeline EXCEPT
                 !.started = Append(@, job),
                 !.targets = IF job \notin CiJobs /\ stepsOk
                             THEN @ \cup {<<CleanupEnvironment(job), DeployStackName(job)>>}
                             ELSE @,
                 !.results[job] =
                     IF stepsOk /\ (job \in CiJobs \/ DeployStackName(job) = AppStack)
                     THEN "success" ELSE "failure"]
       ELSE pipeline' = [pipeline EXCEPT !.results[job] = "skipped"]
    /\ UNCHANGED <<pc, err, props, hostedZones, availabilityZones, network, dns,
                   database, jumphost, application, aRecord, outputs, order,
                   grants, teardown>>

LintAndTest == \E stepsOk \in BOOLEAN : RunJob("lint-and-test", stepsOk)

SecurityScan == \E stepsOk \in BOOLEAN : RunJob("security-scan", stepsOk)

DeployDev == \E stepsOk \in BOOLEAN : RunJob("deploy-dev", stepsOk)

DeployStaging == \E stepsOk \in BOOLEAN : RunJob("deploy-staging", stepsOk)

DeployProduction == \E stepsOk \in BOOLEAN : RunJob("deploy-production", stepsOk)

InitPipeline ==
    /\ pc = 0
    /\ err = "none"
    /\ props = [NoProps EXCEPT !.domainName = Some(OAZIS_SITE)]
    /\ hostedZones = {EXAMPLE_COM, OAZIS_SITE}
    /\ availabilityZones = 3
    /\ teardown = NoTeardown
    /\ pipeline \in Events
    /\ NothingInstantiated
    /\ aRecord = NULL
    /\ outputs = NULL
    /\ grants = <<>>
    /\ op = <<"on">>

NextPipeline ==
    \/ LintAndTest
    \/ SecurityScan
    \/ DeployDev
    \/ DeployStaging
    \/ DeployProduction
    \/ \E environment \in Environments, confirmation \in Confirmations,
          stackName \in StackNames, setupOk \in BOOLEAN, strict \in BOOLEAN :
            CleanupWorkflow(environment, confirmation, stackName, setupOk, strict)

SpecPipeline == InitPipeline /\ [][NextPipeline]_vars

----------------------------------------------------------------------------
\* Stack outputs

OutputKeys ==
    {"ApplicationURL", "LoadBalancerDNS", "ClusterName", "ECRRepositoryURI",
     "DatabaseEndpoint", "DatabaseSecretArn", "JumphostInstanceId",
     "JumphostPublicIP", "SSHKeyPairName"}

\* C11: the outputs exist only once all five constructs, both grants and the
\* A record exist and nothing has failed; they are never a partial set, and a
\* run that failed has no outputs.
C11_OutputsAfterEverything ==
    /\ outputs # NULL =>
          /\ err = "none"
          /\ \A name \in {"Network", "Dns", "Database", "Jumphost", "Application"} :
                Construct(name) # NULL
          /\ Len(order) = 5
          /\ Len(grants) = 2
          /\ DOMAIN outputs = OutputKeys
    /\ err # "none" => outputs = NULL

C11_Witness ==
    /\ outputs # NULL
    /\ op = <<"createOutputs">>
    /\ Len(grants) = 2
    /\ Len(order) = 5

\* C12: after a run that passed the stack has exactly the nine outputs, each
\* bound to the value of the construct that owns it, whatever the props.
C12_NineOutputs ==
    Passed =>
        /\ DOMAIN outputs = OutputKeys
        /\ Cardinality(DOMAIN outputs) = 9
        /\ outputs.ApplicationURL = HTTPS \o dns.fullDomainName
        /\ outputs.LoadBalancerDNS = application.loadBalancerDnsName
        /\ outputs.ClusterName = application.cluster.clusterName
        /\ outputs.ECRRepositoryURI = application.repository.repositoryUri
        /\ outputs.DatabaseEndpoint = database.endpoint
        /\ outputs.DatabaseSecretArn = database.secret.arn
        /\ outputs.JumphostInstanceId = jumphost.instanceId
        /\ outputs.JumphostPublicIP = jumphost.publicIp
        /\ outputs.SSHKeyPairName = jumphost.keyPair.keyPairName

C12_Witness ==
    /\ Passed
    /\ props.domainName = Some(EXAMPLE_COM)
    /\ props.desiredCount = Some(1)
    /\ outputs.JumphostPublicIP = "Jumphost/Instance.PublicIp"
    /\ outputs.SSHKeyPairName = "springboot-jumphost-key"

\* C13: a call of createOutputs, the first or a later one, succeeds and leaves
\* the stack with the outputs computed from the constructs.
C13_CollectTwice ==
    (op = <<"createOutputs">> /\ outputs # NULL) =>
        /\ err = "none"
        /\ outputs = CreateOutputs(dns, database, jumphost, application)

\* the components in the order of the constructor's statements
ComponentOrder == <<"Network", "Dns", "Database", "Jumphost", "Application">>

\* C14: a run that failed stopped at the failing statement: the components
\* instantiated before it are still there, the failing one and every later one
\* are not, no grant, A record or output exists, and no further step is taken
\* (no retry, no rollback); no component is ever instantiated past one that
\* failed.
C14_FailureStopsThePass ==
    /\ \A i \in 1..Len(order) : order[i] = ComponentOrder[i]
    /\ err # "none" =>
          /\ pc \in 1..Len(StackProgram)
          /\ StackProgram[pc] = "dns"
          /\ order = <<"Network">>
          /\ network = NetworkConstruct(NetworkProps(Some(2), Some(1)))
          /\ dns = NULL
          /\ database = NULL
          /\ jumphost = NULL
          /\ application = NULL
          /\ grants = <<>>
          /\ aRecord = NULL
          /\ outputs = NULL
          /\ ~ENABLED Next

C14_Witness ==
    /\ err = "LookupError"
    /\ op = <<"new", "Dns">>
    /\ network # NULL
    /\ dns = NULL
    /\ outputs = NULL

----------------------------------------------------------------------------
\* Database retention and cleanup

\* C15: an instance that is retained on teardown stays retained whatever a
\* later provisioning says (turning deletionProtection off does not take the
\* retention away).
C15_ProtectionRatchet ==
    [][(database # NULL /\ database.removalPolicy = "RETAIN")
          => (database' # NULL /\ database'.removalPolicy = "RETAIN")]_vars

\* C16: the instance has deletion protection and the retain policy exactly when
\* deletionProtection was given as true, and a teardown keeps the instance in
\* that case and deletes it otherwise.
C16_ProtectionDecidesRetention ==
    /\ database # NULL =>
          LET protected == Given(props.deletionProtection, FALSE)
          IN  /\ database.deletionProtection = protected
              /\ database.removalPolicy = IF protected THEN "RETAIN" ELSE "DESTROY"
    /\ (teardown.issued /\ teardown.stack = AppStack) =>
          /\ "Database" \in teardown.retained =>
                database # NULL /\ props.deletionProtection = Some(TRUE)
          /\ "Database" \in teardown.destroyed =>
                database = NULL /\ props.deletionProtection # Some(TRUE)
          /\ "Database" \notin teardown.retained => database = NULL

C16_Witness ==
    /\ teardown.issued
    /\ teardown.retained = {"Database"}
    /\ teardown.destroyed = {"Network"}
    /\ props.deletionProtection = Some(TRUE)
    /\ database # NULL

\* C20: a cleanup run destroys only on the explicit confirmation (DESTROY for
\* the workflow, yes in any letter case for the script); every other run
\* ends in failure and destroys nothing.
C20_DestroyNeedsConfirmation ==
    /\ teardown.via = "cleanup.yml" =>
          IF teardown.input = DESTROY
          THEN TRUE
          ELSE ~teardown.issued /\ teardown.status # 0 /\ teardown.destroyed = {}
    /\ teardown.via = "cleanup.sh" =>
          IF teardown.input \in {<<a, b, c>> : a \in {"Y", "y"}, b \in {"E", "e"},
                                              c \in {"S", "s"}}
          THEN teardown.issued
          ELSE ~teardown.issued /\ teardown.status # 0 /\ teardown.destroyed = {}

----------------------------------------------------------------------------
\* Jumphost and Application

\* the inbound rules of the Jumphost security group on the SSH port
SshRules ==
    {i \in 1..Len(jumphost.securityGroup.ingress) :
        jumphost.securityGroup.ingress[i].port = 22}

\* C17: once the Jumphost exists, and after every later step, its security
\* group has no inbound rule on port 22 when allowSshFromAnywhere was given as
\* false, and exactly one, open to any IPv4 address, when it was true or absent.
C17_SshOnlyWhenAllowed ==
    jumphost # NULL =>
        IF Given(props.allowSshFromAnywhere, TRUE)
        THEN /\ Cardinality(SshRules) = 1
             /\ \A i \in SshRules : jumphost.securityGroup.ingress[i].peer = "0.0.0.0/0"
        ELSE SshRules = {}

C17_Witness ==
    /\ jumphost # NULL
    /\ props.allowSshFromAnywhere = Some(FALSE)
    /\ jumphost.securityGroup.ingress = <<>>
    /\ \E i \in 1..Len(grants) : grants[i].source = "Jumphost/SecurityGroup"

\* C18: the container gets the database user name and password only as
\* references into the database secret; its plain environment has the host, the
\* port and the database name and no value of a credential.
C18_CredentialsOnlyAsSecrets ==
    application # NULL =>
        /\ DOMAIN application.secrets = {"DATABASE_USERNAME", "DATABASE_PASSWORD"}
        /\ application.secrets.DATABASE_USERNAME = <<database.secret.arn, "username">>
        /\ application.secrets.DATABASE_PASSWORD
              = <<database.secret.arn, database.secret.generateStringKey>>
        /\ DOMAIN application.environment
              = {"SPRING_PROFILES_ACTIVE", "SERVER_PORT", "DATABASE_HOST",
                 "DATABASE_PORT", "DATABASE_NAME"}
        /\ application.environment.DATABASE_HOST = database.endpoint
        /\ application.environment.DATABASE_PORT = "5432"
        /\ application.environment.DATABASE_NAME = "springbootdb"
        /\ \A key \in DOMAIN application.environment :
              application.environment[key] # database.secret.username

C18_Witness ==
    /\ application # NULL
    /\ props.username = Some("testuser")
    /\ database.secret.username = "testuser"
    /\ application.secrets.DATABASE_USERNAME = <<"Database/Secret", "username">>
    /\ application.environment.DATABASE_HOST = "Database/Instance.Endpoint.Address"

----------------------------------------------------------------------------
\* Network

AllSubnets == network.publicSubnets \cup network.privateSubnets \cup network.databaseSubnets

\* the AZ and NAT gateway counts the Network was asked for
AzsAsked == Given(props.maxAzs, 2)

NatsAsked == Given(props.natGateways, 1)

\* C19 as stated: for maxAzs a >= 1 and natGateways n <= a the Network has 3*a
\* subnets (a of each group), n NAT gateways and one internet gateway.
C19_ThreeSubnetsPerAzAsked ==
    (network # NULL /\ AzsAsked >= 1 /\ NatsAsked <= AzsAsked) =>
        /\ Cardinality(AllSubnets) = 3 * AzsAsked
        /\ Cardinality(network.publicSubnets) = AzsAsked
        /\ Cardinality(network.privateSubnets) = AzsAsked
        /\ Cardinality(network.databaseSubnets) = AzsAsked
        /\ network.natGatewayCount = NatsAsked
        /\ network.internetGateways = 1

\* C19, amended: maxAzs is a maximum.  With z the smaller of a and the zones the
\* stack's environment offers, the Network has 3*z subnets (z of each group),
\* the smaller of n and z NAT gateways and one internet gateway; where the
\* environment offers a zones these are 3*a subnets and n NAT gateways
\* (2 / 1 give 6 and 1, 3 / 2 give 9 and 2).
C19_ThreeSubnetsPerZoneUsed ==
    (network # NULL /\ AzsAsked >= 1 /\ NatsAsked <= AzsAsked) =>
        LET z == IF AzsAsked <= availabilityZones THEN AzsAsked ELSE availabilityZones
        IN  /\ Cardinality(AllSubnets) = 3 * z
            /\ Cardinality(network.publicSubnets) = z
            /\ Cardinality(network.privateSubnets) = z
            /\ Cardinality(network.databaseSubnets) = z
            /\ network.natGatewayCount = (IF NatsAsked <= z THEN NatsAsked ELSE z)
            /\ network.internetGateways = 1
            /\ (AzsAsked <= availabilityZones) =>
                  /\ Cardinality(AllSubnets) = 3 * AzsAsked
                  /\ network.natGatewayCount = NatsAsked

C19_Witness ==
    /\ network # NULL
    /\ props.maxAzs = Some(3)
    /\ props.natGateways = Some(2)
    /\ availabilityZones = 3
    /\ Cardinality(AllSubnets) = 9
    /\ network.natGatewayCount = 2

----------------------------------------------------------------------------
\* Deploy workflow

Started(job) == \E i \in 1..Len(pipeline.started) : pipeline.started[i] = job

Succeeded(job) == pipeline.results[job] = "success"

\* C21: the Development deployment starts only after both CI jobs succeeded,
\* the Staging deployment only after the Development deployment succeeded, the
\* Production deployment only after the Staging deployment succeeded; so
\* Production never starts in a run where an earlier stage failed or was skipped.
C21_StagesInOrder ==
    /\ Started("deploy-dev") => Succeeded("lint-and-test") /\ Succeeded("security-scan")
    /\ Started("deploy-staging") => Succeeded("deploy-dev")
    /\ Started("deploy-production") =>
          /\ Succeeded("deploy-staging")
          /\ Succeeded("deploy-dev")
          /\ Succeeded("lint-and-test")
          /\ Succeeded("security-scan")
    /\ \A i, j \in 1..Len(pipeline.started) :
          (pipeline.started[i] \in Needs(pipeline.started[j])) => i < j

C21_Witness ==
    /\ pipeline.event = "push"
    /\ pipeline.started = <<"security-scan", "lint-and-test", "deploy-dev", "deploy-staging">>
    /\ Succeeded("deploy-dev")
    /\ pipeline.results["deploy-production"] = "skipped"

----------------------------------------------------------------------------
\* The pass of the constructor

NextStatement == (pc' = pc + 1 /\ err' = "none") \/ (pc' = pc /\ err' # "none")

GrantsFollowEndpoints ==
    /\ application # NULL => Len(grants) >= 1
    /\ Len(grants) >= 1 =>
          /\ database # NULL /\ jumphost # NULL
          /\ grants[1].source = jumphost.securityGroup.id
    /\ Len(grants) >= 2 =>
          /\ Len(order) = 5
          /\ grants[2].source = application.securityGroup.id
    /\ outputs # NULL => Len(grants) = 2

C23_FixedOrder ==
    /\ Len(order) <= 5
    /\ order = SubSeq(ComponentOrder, 1, Len(order))
    /\ Passed => order = ComponentOrder
    /\ (err = "none" /\ pc \in 1..Len(StackProgram)) =>
          Len(order) = Cardinality({i \in 1..(pc - 1) :
              StackProgram[i] \in {"network", "dns", "database", "jumphost", "application"}})

C23_Witness ==
    /\ Passed
    /\ order = <<"Network", "Dns", "Database", "Jumphost", "Application">>
    /\ props.subdomainName = Some(API)
    /\ props.maxCapacity = Some(1)

----------------------------------------------------------------------------
\* What a later statement changes of a component that exists

\* the resources in the scope of the DNS construct: the certificate of the
\* constructor and the A record that createARecord adds with scope `this`
DnsResources(d, record) ==
    IF d = NULL THEN {}
    ELSE {<<"Certificate", d.certificate>>} \cup
         (IF record = NULL THEN {} ELSE {<<"ARecord", record>>})

\* d2 is d1 but for the ingress rules of its security group
SameButIngress(d1, d2) ==
    [d2 EXCEPT !.securityGroup.ingress = d1.securityGroup.ingress] = d1

----------------------------------------------------------------------------
\* The flow of data between the components of one pass

\* consumer, producer: the outputs of one construct read by a statement that
\* creates a resource in another: the props of the constructors, the security
\* group named by a grant, the load balancer targeted by the A record
DataFlows ==
    {e \in DependencyEdges : Construct(e[1]) # NULL}
        \cup {<<"Database", name>> : name \in {n \in {"Jumphost", "Application"} :
                  \E i \in 1..Len(grants) : grants[i].source = SourceId(n)}}
        \cup (IF aRecord = NULL THEN {} ELSE {<<"Dns", "Application">>})

\* the position of a component in the order of instantiation
Position(name) == CHOOSE i \in 1..Len(order) : order[i] = name

\* the resources created in the scope of a component
Resources(name) ==
    IF name = "Dns" THEN DnsResources(dns, aRecord)
    ELSE IF Construct(name) = NULL THEN {}
    ELSE IF name = "Database"
         THEN {[database EXCEPT !.securityGroup.ingress = <<>>]}
         ELSE {Construct(name)}

FlowsDownward ==
    \A e \in DataFlows : Position(e[2]) < Position(e[1])

NoReentry ==
    \A e \in DependencyEdges :
        Construct(e[1]) # NULL => Resources(e[2])' = Resources(e[2])

\* C25 as stated: data flows only from a producer to components instantiated
\* after it (so the graph of flows is acyclic), and once a consumer of a
\* component exists no operation creates a further resource in that component.
C25_DownwardAndNoReentry == [](FlowsDownward) /\ [][NoReentry]_vars

----------------------------------------------------------------------------
\* The hosted zone that is not there

\* the domain the stack looks up
StackDomainName == CoalesceStr(props.domainName, OAZIS_SITE)

LookupFailed == StackDomainName \notin hostedZones

FatalLookup ==
    /\ LookupFailed =>
          /\ dns = NULL /\ database = NULL /\ jumphost = NULL
          /\ application = NULL /\ grants = <<>>
          /\ aRecord = NULL /\ outputs = NULL
          /\ pc <= 2
          /\ (pc = 2 /\ err = "none") => ENABLED StackDns
          /\ err # "none" =>
                /\ err = "LookupError" /\ op = <<"new", "Dns">>
                /\ ~ENABLED Next
    /\ err = "LookupError" => LookupFailed
    /\ dns # NULL => dns.hostedZone \in hostedZones

\* C26: when the account hosts no zone for the domain, new DnsConstruct fails
\* with the lookup error at the lookup, before the certificate; the pass ends
\* there (no DNS construct and so no certificate, no later component, no grant,
\* no A record, no outputs, no further statement); a DNS construct that exists
\* refers to a zone the account hosts, and no step ever adds a zone.
C26_LookupFailureIsFatal == [](FatalLookup) /\ [][hostedZones' = hostedZones]_vars

C26_Witness ==
    /\ LookupFailed
    /\ hostedZones = {}
    /\ props.domainName = Some(EXAMPLE_COM)
    /\ err = "LookupError"
    /\ order = <<"Network">>
    /\ ~ENABLED Next

----------------------------------------------------------------------------
\* What starts a deployment

\* C27 as stated: a deploy job runs only in a run on the main (or master)
\* branch: never in a run for a pull request, never in a run dispatched by
\* hand on another branch.
C27_DeployOnlyOnMain ==
    \A job \in Jobs \ CiJobs :
        Started(job) =>
            /\ pipeline.event \in {"push", "workflow_dispatch"}
            /\ pipeline.ref \in MainRefs

----------------------------------------------------------------------------
\* The names of the application

\* the name an A record answers for: its record name, relative to its zone
RecordFqdn(record) ==
    IF record.recordName = EMPTY THEN record.zone
    ELSE record.recordName \o DOT \o record.zone

\* C28 as stated: the A record of the load balancer, the certificate's primary
\* name and the ApplicationURL output name the same subdomain.domain, for every
\* (non-empty) subdomain and domain, a subdomain with a dot in it included.
C28_OneNameEverywhere ==
    (props.subdomainName # Some(EMPTY) /\ props.domainName # Some(EMPTY)) =>
        /\ aRecord # NULL =>
              /\ dns.certificate.domainName = dns.fullDomainName
              /\ RecordFqdn(aRecord) = dns.certificate.domainName
        /\ outputs # NULL =>
              outputs.ApplicationURL = HTTPS \o RecordFqdn(aRecord)

----------------------------------------------------------------------------
\* The database the application is told about

----------------------------------------------------------------------------
\* The stacks the workflows name

\* the deploy job of an environment
DeployJob(environment) ==
    CHOOSE job \in Jobs \ CiJobs : CleanupEnvironment(job) = environment

\* C30 as stated: for each environment the stack the cleanup workflow destroys
\* (with its default stack name) is the stack the deploy workflow deploys for
\* that environment, and every stack either workflow names is a stack of the
\* CDK app.
C30_OneStackPerEnvironment ==
    /\ \A t \in pipeline.targets :
          /\ t[2] = DestroyStackName(AppStack, t[1])
          /\ t[2] = AppStack
    /\ \A environment \in Environments :
          (/\ op = <<"cleanup.yml", environment>>
           /\ teardown.issued
           /\ teardown.input = DESTROY
           /\ teardown.stack = DestroyStackName(AppStack, environment)) =>
              /\ teardown.stack = DeployStackName(DeployJob(environment))
              /\ teardown.stack = AppStack

====
